---------------------------- MODULE Spec2Model ----------------------------
(***************************************************************************)
(* Model of deepinv/unfolded/unfolded.py: the construction of BaseUnfold   *)
(* (the learnable wrapper around an iterator) and unfolded_builder (the    *)
(* selection logic assembling an iterator from an algorithm name).         *)
(*                                                                         *)
(* Python objects with identity (iterators) live in a heap indexed by      *)
(* object ids; everything else is a value.  None is the string "None".     *)
(***************************************************************************)
EXTENDS Integers, Sequences, FiniteSets, TLC

VARIABLES heap, model, call, pc

vars == <<heap, model, call, pc>>

---------------------------------------------------------------------------
(* Bounds of the model. *)

\* longest per-iteration value list in params_algo
MaxIter == 2
\* longest trainable_params list
MaxTrain == 2
\* longest prior list
MaxPriors == 2
\* per-iteration values are 1..MaxVal
MaxVal == 2

---------------------------------------------------------------------------
(* Input domains. *)

None == "None"

\* allocation of a new object id
FreshId(h) == CHOOSE i \in 1..(Cardinality(DOMAIN h) + 1) : i \notin DOMAIN h

\* object id of the iterator the user built before calling into this module
UserId == FreshId(<<>>)

AlgoNames == {"PGD", "HQS"}
DataFidelities == {"L2", "L1"}
Betas == {1, 2}
Devices == {"cpu", "cuda"}
CustomSteps == {None, "stepA", "stepB"}
ParamKeys == {"stepsize", "g_param"}
TrainKeys == ParamKeys \cup {"sigma"}
UserFns == {None, "F_user", "F_own"}

SeqsUpTo(S, lo, hi) == UNION {[1..n -> S] : n \in lo..hi}

\* a python float
Float(v) == [tag |-> "float", val |-> v, device |-> None]

\* a python list of per-iteration values
PyList(items) == [tag |-> "list", items |-> items]

ValueLists == {PyList(s) : s \in SeqsUpTo({Float(v) : v \in 1..MaxVal}, 1, MaxIter)}

\* params_algo dictionaries: key -> list of per-iteration values
ParamDicts == UNION {[D -> ValueLists] : D \in {{"stepsize"}, ParamKeys}}

TrainLists == SeqsUpTo(TrainKeys, 0, MaxTrain)

Prior(explicit) == [explicit_prior |-> explicit]

\* the prior argument: one prior, or a python list of priors
PriorArgs ==
    {[isList |-> FALSE, explicit_prior |-> b] : b \in BOOLEAN}
    \cup {[isList |-> TRUE, items |-> s] :
            s \in SeqsUpTo({Prior(b) : b \in BOOLEAN}, 0, MaxPriors)}

\* the iteration argument: an algorithm name or an iterator object
IterationArgs ==
    {[isStr |-> TRUE, name |-> n, ref |-> 0] : n \in AlgoNames}
    \cup {[isStr |-> FALSE, name |-> "", ref |-> UserId]}

Range(s) == {s[i] : i \in 1..Len(s)}

---------------------------------------------------------------------------
(* Library calls made by unfolded.py. *)

\* an OptimIterator instance: the constructor stores its keyword arguments
\* and builds the g and f steps of its own class
NewIterator(cls, data_fidelity, g_first, beta, F_fn, has_cost) ==
    [cls |-> cls, data_fidelity |-> data_fidelity, g_first |-> g_first,
     beta |-> beta, F_fn |-> F_fn, has_cost |-> has_cost,
     g_step |-> cls \o ".g_step", f_step |-> cls \o ".f_step"]

\* BaseOptim.__init__(iterator, params_algo, prior, has_cost): stores the
\* iterator, the parameter dictionary and the prior (a single prior is
\* wrapped in a list)
BaseOptimInit(iterator, has_cost, kwargs) ==
    [iterator |-> iterator,
     has_cost |-> has_cost,
     init_params_algo |-> kwargs.params_algo,
     params_algo |-> kwargs.params_algo,
     prior |-> IF kwargs.prior.isList THEN kwargs.prior.items
               ELSE <<Prior(kwargs.prior.explicit_prior)>>]

\* torch.tensor(el).to(device) wrapped in nn.Parameter: a learnable tensor
\* holding the value of el on the given device (el may be a python float or,
\* when its key is listed twice, an already converted Parameter; values are
\* taken at the precision of the tensor)
ToParameter(el, device) ==
    [tag |-> "Parameter", val |-> el.val, device |-> device]

ToParameterList_Reversed(param_value, device) ==
    [tag |-> "ParameterList",
     items |-> [i \in 1..Len(param_value.items) |->
                  ToParameter(param_value.items[Len(param_value.items) + 1 - i], device)]]

\* nn.ParameterList([nn.Parameter(torch.tensor(el).to(device)) for el in param_value])
ToParameterList(param_value, device) ==
    [tag |-> "ParameterList",
     items |-> [i \in 1..Len(param_value.items) |->
                  ToParameter(param_value.items[i], device)]]

---------------------------------------------------------------------------
(* BaseUnfold.__init__ *)

\* the loop over trainable_params: keys[1..n] have been visited
RECURSIVE MakeTrainable(_, _, _, _)
MakeTrainable(params, keys, n, device) ==
    IF n = 0 THEN params
    ELSE LET done == MakeTrainable(params, keys, n - 1, device)
             param_key == keys[n]
         IN  IF param_key \in DOMAIN done
             THEN [done EXCEPT ![param_key] = ToParameterList(done[param_key], device)]
             ELSE done

ReplaceSteps_Swapped(it, custom_g_step, custom_f_step) ==
    LET g == IF custom_f_step # None THEN [it EXCEPT !.g_step = custom_g_step] ELSE it
    IN  IF custom_f_step # None THEN [g EXCEPT !.f_step = custom_f_step] ELSE g

\* the two trailing ifs of BaseUnfold.__init__ acting on self.iterator
ReplaceSteps(it, custom_g_step, custom_f_step) ==
    LET g == IF custom_g_step # None THEN [it EXCEPT !.g_step = custom_g_step] ELSE it
    IN  IF custom_f_step # None THEN [g EXCEPT !.f_step = custom_f_step] ELSE g

\* the object built by BaseUnfold(iterator, has_cost=..., **kwargs)
BaseUnfoldSelf(iterator, has_cost, kwargs) ==
    LET base == BaseOptimInit(iterator, has_cost, kwargs)
        trained == MakeTrainable(base.init_params_algo, kwargs.trainable_params,
                                 Len(kwargs.trainable_params), kwargs.device)
    IN  [base EXCEPT !.init_params_algo = trained, !.params_algo = trained]

\* the heap after BaseUnfold.__init__: the iterator object itself is mutated
BaseUnfoldHeap(h, iterator, kwargs) ==
    [h EXCEPT ![iterator] = ReplaceSteps(h[iterator], kwargs.custom_g_step,
                                         kwargs.custom_f_step)]

Kwargs(params_algo, prior, trainable_params, custom_g_step, custom_f_step, device) ==
    [params_algo |-> params_algo, prior |-> prior,
     trainable_params |-> trainable_params, custom_g_step |-> custom_g_step,
     custom_f_step |-> custom_f_step, device |-> device]

NoModel ==
    [iterator |-> 0, has_cost |-> FALSE, init_params_algo |-> <<>>,
     params_algo |-> <<>>, prior |-> <<>>]

NoArgs ==
    [iteration |-> [isStr |-> FALSE, name |-> "", ref |-> 0],
     data_fidelity |-> None, F_fn |-> None, g_first |-> FALSE, beta |-> 0,
     has_cost |-> FALSE]

\* a user constructs BaseUnfold directly around an existing iterator
BaseUnfoldInit ==
    /\ pc = "idle"
    /\ \E has_cost \in BOOLEAN, explicit \in BOOLEAN, params_algo \in ParamDicts,
          trainable_params \in TrainLists, device \in Devices,
          custom_g_step \in CustomSteps, custom_f_step \in CustomSteps :
         LET kwargs == Kwargs(params_algo, [isList |-> FALSE, explicit_prior |-> explicit],
                              trainable_params, custom_g_step, custom_f_step, device)
         IN  /\ model' = BaseUnfoldSelf(UserId, has_cost, kwargs)
             /\ heap' = BaseUnfoldHeap(heap, UserId, kwargs)
             /\ call' = [fn |-> "BaseUnfold", pre |-> heap, kwargs |-> kwargs,
                         args |-> [NoArgs EXCEPT !.has_cost = has_cost]]
    /\ pc' = "built"

---------------------------------------------------------------------------
(* unfolded_builder *)

ExplicitPrior_Last(prior) ==
    IF prior.isList THEN prior.items[Len(prior.items)].explicit_prior
    ELSE prior.explicit_prior

\* kwargs["prior"][0].explicit_prior if the prior is a list, else
\* kwargs["prior"].explicit_prior
ExplicitPrior(prior) ==
    IF prior.isList THEN prior.items[1].explicit_prior
    ELSE prior.explicit_prior

\* has_cost as set by the if/else on F_fn and explicit_prior
HasCost(F_fn, prior) == F_fn = None /\ ExplicitPrior(prior)

\* F_fn after the if/else: rebound to the default cost when has_cost
ResolveF(F_fn, prior) == IF HasCost(F_fn, prior) THEN "F_default" ELSE F_fn

\* str_to_class(iteration + "Iteration")
StrToClass(iteration) == iteration \o "Iteration"

SelectIterator_Rebuild(h, iteration, data_fidelity, g_first, beta, F_fn, has_cost) ==
    [id |-> FreshId(h),
     heap |-> (FreshId(h) :> NewIterator(
                  IF iteration.isStr THEN StrToClass(iteration.name) ELSE h[iteration.ref].cls,
                  data_fidelity, g_first, beta, F_fn, has_cost)) @@ h]

\* the if/else on isinstance(iteration, str): the iterator and the heap
\* holding it
SelectIterator(h, iteration, data_fidelity, g_first, beta, F_fn, has_cost) ==
    IF iteration.isStr
    THEN [id |-> FreshId(h),
          heap |-> (FreshId(h) :> NewIterator(StrToClass(iteration.name), data_fidelity,
                                              g_first, beta, F_fn, has_cost)) @@ h]
    ELSE [id |-> iteration.ref, heap |-> h]

UnfoldedBuilder ==
    /\ pc = "idle"
    /\ \E iteration \in IterationArgs, data_fidelity \in DataFidelities,
          F_fn \in {None, "F_user"}, g_first \in BOOLEAN, beta \in Betas,
          prior \in PriorArgs, params_algo \in {d \in ParamDicts : DOMAIN d = {"stepsize"}},
          trainable_params \in {<<>>, <<"stepsize">>},
          custom_g_step \in {None, "stepA"}, custom_f_step \in {None, "stepB"} :
         LET kwargs == Kwargs(params_algo, prior, trainable_params, custom_g_step,
                              custom_f_step, "cpu")
             args == [iteration |-> iteration, data_fidelity |-> data_fidelity,
                      F_fn |-> F_fn, g_first |-> g_first, beta |-> beta,
                      has_cost |-> FALSE]
         IN  /\ call' = [fn |-> "unfolded_builder", pre |-> heap, kwargs |-> kwargs,
                         args |-> args]
             /\ IF prior.isList /\ Len(prior.items) = 0
                THEN \* kwargs["prior"][0] raises IndexError
                     /\ pc' = "raised"
                     /\ UNCHANGED <<heap, model>>
                ELSE LET has_cost == HasCost(F_fn, prior)
                         sel == SelectIterator(heap, iteration, data_fidelity, g_first,
                                               beta, ResolveF(F_fn, prior), has_cost)
                     IN  /\ model' = BaseUnfoldSelf(sel.id, has_cost, kwargs)
                         /\ heap' = BaseUnfoldHeap(sel.heap, sel.id, kwargs)
                         /\ pc' = "built"

---------------------------------------------------------------------------

Init ==
    /\ \E f \in UserFns :
         heap = (UserId :> NewIterator("CustomIteration", "L2", FALSE, 1, f, f # None))
    /\ model = NoModel
    /\ call = [fn |-> None, pre |-> <<>>, kwargs |-> <<>>, args |-> NoArgs]
    /\ pc = "idle"

Next == BaseUnfoldInit \/ UnfoldedBuilder

Spec == Init /\ [][Next]_vars

---------------------------------------------------------------------------
(* Properties. *)

Built == pc = "built"

BuiltByBuilder == pc = "built" /\ call.fn = "unfolded_builder"

\* the iterator object the model runs
ModelIterator == heap[model.iterator]

\* the iterator as BaseUnfold.__init__ received it
ReceivedIterator ==
    IF model.iterator \in DOMAIN call.pre
    THEN call.pre[model.iterator]
    ELSE NewIterator(ModelIterator.cls, ModelIterator.data_fidelity,
                     ModelIterator.g_first, ModelIterator.beta,
                     ModelIterator.F_fn, ModelIterator.has_cost)

\* C1: after BaseUnfold is constructed, every key of trainable_params that
\* is also a key of init_params_algo holds a list of learnable parameters,
\* one per element of the original per-iteration list, in the same order
\* and with the same values; the length of the list is unchanged.
C1_TrainableAreParameterLists ==
    Built =>
      \A k \in Range(call.kwargs.trainable_params) \cap DOMAIN call.kwargs.params_algo :
        LET orig == call.kwargs.params_algo[k].items
            new == model.init_params_algo[k]
        IN  /\ new.tag = "ParameterList"
            /\ Len(new.items) = Len(orig)
            /\ \A i \in 1..Len(orig) :
                 /\ new.items[i].tag = "Parameter"
                 /\ new.items[i].val = orig[i].val

C1_Witness ==
    /\ Built
    /\ "stepsize" \in Range(call.kwargs.trainable_params)
    /\ Len(call.kwargs.params_algo["stepsize"].items) >= 2
    /\ call.kwargs.params_algo["stepsize"].items[1].val
         # call.kwargs.params_algo["stepsize"].items[2].val
    /\ model.init_params_algo["stepsize"].tag = "ParameterList"

\* C2 as stated: built from a name, the iterator is a new instance of the
\* class iteration + "Iteration" constructed with the caller's
\* data_fidelity, g_first, beta and F_fn and with has_cost; otherwise the
\* iterator is the very object passed in.
C2_IteratorFromCallerArgs ==
    BuiltByBuilder =>
      IF call.args.iteration.isStr
      THEN /\ model.iterator \notin DOMAIN call.pre
           /\ ModelIterator.cls = call.args.iteration.name \o "Iteration"
           /\ ModelIterator.data_fidelity = call.args.data_fidelity
           /\ ModelIterator.g_first = call.args.g_first
           /\ ModelIterator.beta = call.args.beta
           /\ ModelIterator.F_fn = call.args.F_fn
           /\ ModelIterator.has_cost = model.has_cost
      ELSE /\ model.iterator = call.args.iteration.ref
           /\ DOMAIN heap = DOMAIN call.pre

\* C2 (amended): as C2, except that the F_fn the new iterator is
\* constructed with is the default cost when the caller supplied no F_fn and
\* the prior is explicit, and the caller's F_fn in every other case.
C2_IteratorFromNameOrObject ==
    BuiltByBuilder =>
      IF call.args.iteration.isStr
      THEN /\ model.iterator \notin DOMAIN call.pre
           /\ ModelIterator.cls = call.args.iteration.name \o "Iteration"
           /\ ModelIterator.data_fidelity = call.args.data_fidelity
           /\ ModelIterator.g_first = call.args.g_first
           /\ ModelIterator.beta = call.args.beta
           /\ ModelIterator.F_fn =
                IF call.args.F_fn = None /\ model.has_cost THEN "F_default"
                ELSE call.args.F_fn
           /\ ModelIterator.has_cost = model.has_cost
      ELSE /\ model.iterator = call.args.iteration.ref
           /\ DOMAIN heap = DOMAIN call.pre

C2_Witness ==
    /\ BuiltByBuilder
    /\ call.args.iteration.isStr
    /\ call.args.F_fn = None
    /\ model.iterator \notin DOMAIN call.pre
    /\ ModelIterator.cls = "PGDIteration"
    /\ ModelIterator.F_fn = "F_default"
    /\ ModelIterator.has_cost

\* C3: a cost function F_fn supplied by the caller of unfolded_builder is the
\* cost function held by the iterator of the returned model, whether
\* iteration is an algorithm name or an iterator object.
C3_CallerCostIsModelCost ==
    (BuiltByBuilder /\ call.args.F_fn # None) =>
      ModelIterator.F_fn = call.args.F_fn

\* C4: custom_g_step and custom_f_step act independently: g_step is replaced
\* by custom_g_step exactly when custom_g_step is not None, f_step by
\* custom_f_step exactly when custom_f_step is not None; otherwise the
\* iterator keeps its original step.
C4_CustomStepsIndependent ==
    Built =>
      /\ ModelIterator.g_step =
           IF call.kwargs.custom_g_step # None THEN call.kwargs.custom_g_step
           ELSE ReceivedIterator.g_step
      /\ ModelIterator.f_step =
           IF call.kwargs.custom_f_step # None THEN call.kwargs.custom_f_step
           ELSE ReceivedIterator.f_step

C4_Witness ==
    /\ Built
    /\ call.kwargs.custom_g_step # None
    /\ call.kwargs.custom_f_step = None
    /\ ModelIterator.g_step = call.kwargs.custom_g_step
    /\ ModelIterator.f_step = call.pre[UserId].f_step
    /\ model.iterator = UserId

\* C5: has_cost is true exactly when the caller supplied no F_fn and the
\* prior is explicit (read from the first element when prior is a list, from
\* the prior itself otherwise); the same value is given to the iterator
\* built from a name and to BaseUnfold.
C5_HasCostIffDefaultCost ==
    BuiltByBuilder =>
      LET prior == call.kwargs.prior
          explicit == IF prior.isList THEN prior.items[1].explicit_prior
                      ELSE prior.explicit_prior
          expected == call.args.F_fn = None /\ explicit
      IN  /\ model.has_cost = expected
          /\ call.args.iteration.isStr => ModelIterator.has_cost = expected

C5_Witness ==
    /\ BuiltByBuilder
    /\ call.args.iteration.isStr
    /\ call.args.F_fn = None
    /\ call.kwargs.prior.isList
    /\ Len(call.kwargs.prior.items) >= 2
    /\ call.kwargs.prior.items[1].explicit_prior
    /\ ~call.kwargs.prior.items[2].explicit_prior
    /\ model.has_cost
    /\ ModelIterator.has_cost

=============================================================================
